---- MODULE Spec2Model ----
(***************************************************************************)
(* GitRepoParser (src/api.repo.ts): parse, validate, isValidProvider and   *)
(* the HTTP action that wraps parse.                                       *)
(*                                                                         *)
(* A JavaScript string is a sequence of one-character strings, so that the *)
(* regular expressions and the URL parser are computed character by        *)
(* character.  A JavaScript value that may be of several types (the        *)
(* `private` field of a response body) is a tag: "true", "false",          *)
(* "undefined", "string".                                                  *)
(***************************************************************************)
EXTENDS Naturals, Sequences, FiniteSets

VARIABLES
    input,       \* the string the caller passes (url)
    op,          \* the operation called: "none", "parse", "validate",
                 \* "isValidProvider", "action"
    pc,          \* "idle", "awaitFetch", "awaitBody", "done"
    local,       \* parse's locals after its synchronous part (lines 85-117)
    fetchCount,  \* number of calls of fetch made by the call of parse
    response,    \* the lookup as settled so far
    ret          \* what the operation returned or threw

vars == <<input, op, pc, local, fetchCount, response, ret>>

----------------------------------------------------------------------------
(* Bounds of the model.                                                    *)

\* Greatest number of path segments of a generated input.
MaxSegs == 3

----------------------------------------------------------------------------
(* Characters and strings.                                                 *)

Lower == {"a", "b", "c", "d", "e", "f", "g", "h", "i", "j", "k", "l", "m",
          "n", "o", "p", "q", "r", "s", "t", "u", "v", "w", "x", "y", "z"}
Upper == {"A", "B", "C", "D", "E", "F", "G", "H", "I", "J", "K", "L", "M",
          "N", "O", "P", "Q", "R", "S", "T", "U", "V", "W", "X", "Y", "Z"}
Digit == {"0", "1", "2", "3", "4", "5", "6", "7", "8", "9"}

\* \w
WordChar == Lower \cup Upper \cup Digit \cup {"_"}
\* [\w-]
OwnerChar == WordChar \cup {"-"}
\* [\w.-]
RefChar == WordChar \cup {".", "-"}
\* [a-f0-9] under the i flag
HexChar == Digit \cup {"a", "b", "c", "d", "e", "f", "A", "B", "C", "D", "E", "F"}

\* The value `undefined` of an optional string; no string is equal to it.
Undefined == <<"undefined">>

\* s.slice(i - 1): the characters of s from position i on.
Drop(s, i) == SubSeq(s, i, Len(s))

\* s.startsWith(sub, i - 1)
StartsWithAt(s, sub, i) ==
    /\ i + Len(sub) - 1 <= Len(s)
    /\ SubSeq(s, i, i + Len(sub) - 1) = sub

\* s.indexOf(sub) + 1: the first position at which sub occurs in s, 0 if none.
IndexOf(s, sub) ==
    LET hits == {i \in 1..Len(s) : StartsWithAt(s, sub, i)}
    IN  IF hits = {} THEN 0 ELSE CHOOSE i \in hits : \A j \in hits : i <= j

\* s.includes(sub)
Includes(s, sub) == IndexOf(s, sub) # 0

\* The first position >= i of s holding a character of set stop, Len(s) + 1 if none.
FirstOf(s, stop, i) ==
    LET hits == {k \in i..Len(s) : s[k] \in stop}
    IN  IF hits = {} THEN Len(s) + 1 ELSE CHOOSE k \in hits : \A j \in hits : k <= j

\* The longest run of characters of class cls that starts at position i of s
\* (a greedy cls* match).
Run(s, cls, i) ==
    LET bad == {k \in i..Len(s) : s[k] \notin cls}
        end == IF bad = {} THEN Len(s) + 1 ELSE CHOOSE k \in bad : \A j \in bad : k <= j
    IN  SubSeq(s, i, end - 1)

\* s.split('/')
RECURSIVE Split(_)
Split(s) ==
    LET k == FirstOf(s, {"/"}, 1)
    IN  IF k > Len(s) THEN <<s>> ELSE <<SubSeq(s, 1, k - 1)>> \o Split(Drop(s, k + 1))

\* segs.join('/')
RECURSIVE Join(_)
Join(segs) ==
    IF segs = <<>> THEN <<>>
    ELSE IF Len(segs) = 1 THEN segs[1]
    ELSE segs[1] \o <<"/">> \o Join(Tail(segs))

\* segs.filter(Boolean): the non-empty strings of segs, in order.
RECURSIVE FilterNonEmpty(_)
FilterNonEmpty(segs) ==
    IF segs = <<>> THEN <<>>
    ELSE IF Head(segs) = <<>> THEN FilterNonEmpty(Tail(segs))
    ELSE <<Head(segs)>> \o FilterNonEmpty(Tail(segs))

----------------------------------------------------------------------------
(* String literals of the source.                                          *)

SchemeSep == <<":", "/", "/">>
DotGit == <<".", "g", "i", "t">>
TreeSlash == <<"/", "t", "r", "e", "e", "/">>
CommitSlash == <<"/", "c", "o", "m", "m", "i", "t", "/">>
HttpsPrefix == <<"h", "t", "t", "p", "s", ":", "/", "/">>
GithubPrefix == <<"h", "t", "t", "p", "s", ":", "/", "/", "g", "i", "t", "h", "u", "b", ".", "c", "o", "m", "/">>

\* The schemes the URL parser calls special (file apart, which no input uses).
SpecialSchemes ==
    { <<"h", "t", "t", "p">>, <<"h", "t", "t", "p", "s">>, <<"f", "t", "p">>,
      <<"w", "s">>, <<"w", "s", "s">> }

\* The provider patterns, in the order Object.entries and Object.values give them.
PROVIDER_PATTERNS ==
    << [name |-> "github", pattern |-> <<"g", "i", "t", "h", "u", "b", ".", "c", "o", "m">>],
       [name |-> "gitlab", pattern |-> <<"g", "i", "t", "l", "a", "b", ".", "c", "o", "m">>],
       [name |-> "bitbucket", pattern |-> <<"b", "i", "t", "b", "u", "c", "k", "e", "t", ".", "o", "r", "g">>] >>

----------------------------------------------------------------------------
(* new URL(url), for the strings of the model: no whitespace, no userinfo, *)
(* no port, no percent-escape, no backslash, lower-case scheme and host.   *)

\* The path's segments after the URL parser has resolved "." and "..":
\* ".." removes the segment before it, and either one, when last, leaves an
\* empty last segment (a trailing slash).
RECURSIVE DotSegments(_, _)
DotSegments(raw, acc) ==
    IF raw = <<>> THEN acc
    ELSE LET seg == Head(raw)
             last == Len(raw) = 1
             popped == IF acc = <<>> THEN acc ELSE SubSeq(acc, 1, Len(acc) - 1)
         IN  IF seg = <<".", ".">>
             THEN DotSegments(Tail(raw), IF last THEN Append(popped, <<>>) ELSE popped)
             ELSE IF seg = <<".">>
             THEN DotSegments(Tail(raw), IF last THEN Append(acc, <<>>) ELSE acc)
             ELSE DotSegments(Tail(raw), Append(acc, seg))

\* new URL(s): valid is FALSE where the constructor throws; hostname and
\* pathname are the properties the source reads.
ParseURL(s) ==
    LET colon == IndexOf(s, <<":">>)
        scheme == SubSeq(s, 1, colon - 1)
        validScheme ==
            /\ colon > 1
            /\ s[1] \in Lower \cup Upper
            /\ \A i \in 2..(colon - 1) : s[i] \in Lower \cup Upper \cup Digit \cup {"+", "-", "."}
        special == scheme \in SpecialSchemes
        rest == Drop(s, colon + 1)
        \* a special scheme skips every slash before the authority; another
        \* scheme has an authority only after exactly "//"
        hasAuthority == special \/ StartsWithAt(rest, <<"/", "/">>, 1)
        hostStart == IF special THEN Len(Run(rest, {"/"}, 1)) + 1 ELSE 3
        hostEnd == FirstOf(rest, {"/", "?", "#"}, hostStart)
        host == IF hasAuthority THEN SubSeq(rest, hostStart, hostEnd - 1) ELSE <<>>
        pathStart == IF hasAuthority THEN hostEnd ELSE 1
        pathStr == SubSeq(rest, pathStart, FirstOf(rest, {"?", "#"}, pathStart) - 1)
        path == IF ~hasAuthority THEN pathStr
                ELSE IF pathStr = <<>> THEN (IF special THEN <<"/">> ELSE <<>>)
                ELSE <<"/">> \o Join(DotSegments(Split(Drop(pathStr, 2)), <<>>))
    IN  IF ~validScheme \/ (special /\ host = <<>>)
        THEN [valid |-> FALSE, hostname |-> <<>>, pathname |-> <<>>]
        ELSE [valid |-> TRUE, hostname |-> host, pathname |-> path]

----------------------------------------------------------------------------
(* The regular expressions of the source.                                  *)

\* /^[\w-]+\/[\w.-]+$/.test(s)
ShorthandTest(s) ==
    \E k \in 2..(Len(s) - 1) :
        /\ s[k] = "/"
        /\ \A i \in 1..(k - 1) : s[i] \in OwnerChar
        /\ \A i \in (k + 1)..Len(s) : s[i] \in RefChar

\* c.toLowerCase() of one character
ToLower(c) ==
    IF c \in Upper
    THEN CHOOSE l \in Lower :
            \E i \in 1..26 :
                /\ <<"A", "B", "C", "D", "E", "F", "G", "H", "I", "J", "K", "L", "M",
                     "N", "O", "P", "Q", "R", "S", "T", "U", "V", "W", "X", "Y", "Z">>[i] = c
                /\ <<"a", "b", "c", "d", "e", "f", "g", "h", "i", "j", "k", "l", "m",
                     "n", "o", "p", "q", "r", "s", "t", "u", "v", "w", "x", "y", "z">>[i] = l
    ELSE c

\* s.match(/<lit>(<cls>+)/)[1], or undefined: the first place where lit is
\* followed by a character of cls, and the longest run of cls from there.
\* With fold (the i flag), letter case is ignored in lit.
MatchGroup(s, lit, cls, fold) ==
    LET t == IF fold THEN [i \in 1..Len(s) |-> ToLower(s[i])] ELSE s
        hits == {i \in 1..Len(s) :
                    /\ StartsWithAt(t, lit, i)
                    /\ i + Len(lit) <= Len(s)
                    /\ s[i + Len(lit)] \in cls}
    IN  IF hits = {} THEN Undefined
        ELSE Run(s, cls, (CHOOSE i \in hits : \A j \in hits : i <= j) + Len(lit))

\* url.match(BRANCH_PATTERN), group 1:  /\/tree\/([\w.-]+)/
BRANCH_PATTERN(url) == MatchGroup(url, TreeSlash, RefChar, FALSE)

\* url.match(COMMIT_PATTERN), group 1:  /\/commit\/([a-f0-9]+)/i
COMMIT_PATTERN(url) == MatchGroup(url, CommitSlash, HexChar, TRUE)

\* repo.replace(/\.git$/, '')
StripGit(repo) ==
    IF Len(repo) >= 4 /\ SubSeq(repo, Len(repo) - 3, Len(repo)) = DotGit
    THEN SubSeq(repo, 1, Len(repo) - 4)
    ELSE repo

----------------------------------------------------------------------------
(* gitUrlSchema and the synchronous part of parse.                         *)

\* Faulty variant of gitUrlSchema: a string without "://" is accepted
\* without the shorthand test.
gitUrlSchemaNoShorthandTest(url) ==
    IF Includes(url, SchemeSep) THEN ParseURL(url).valid ELSE TRUE

\* The refinement of gitUrlSchema: a string with "://" must be a URL, any
\* other string must be the shorthand.
gitUrlSchema(url) ==
    IF Includes(url, SchemeSep) THEN ParseURL(url).valid ELSE ShorthandTest(url)

\* The names of the patterns that match the hostname, as positions of
\* PROVIDER_PATTERNS.
MatchingProviders(hostname) ==
    {i \in 1..Len(PROVIDER_PATTERNS) : Includes(hostname, PROVIDER_PATTERNS[i].pattern)}

\* Faulty variant of DetectProvider: the last matching pattern wins.
DetectProviderLastMatch(hostname) ==
    LET hits == MatchingProviders(hostname)
    IN  IF hits = {} THEN "github"
        ELSE PROVIDER_PATTERNS[CHOOSE i \in hits : \A j \in hits : i >= j].name

\* Object.entries(PROVIDER_PATTERNS).find(...)?.[0] || 'github'
DetectProvider(hostname) ==
    LET hits == MatchingProviders(hostname)
    IN  IF hits = {} THEN "github"
        ELSE PROVIDER_PATTERNS[CHOOSE i \in hits : \A j \in hits : i <= j].name

\* `https://${hostname}/${owner}/${cleanRepo}`
NormalizedUrl(hostname, owner, cleanRepo) ==
    HttpsPrefix \o hostname \o <<"/">> \o owner \o <<"/">> \o cleanRepo

\* Lines 88-90: the shorthand is expanded to a github URL.
ExpandShorthand(url) ==
    IF Includes(url, SchemeSep) THEN url ELSE GithubPrefix \o url

\* What parse holds when it throws with error e: no local is read afterwards.
ParseFailed(e, url) ==
    [status |-> e, url |-> url, hostname |-> <<>>, owner |-> Undefined,
     repo |-> Undefined, branch |-> Undefined, commit |-> Undefined,
     provider |-> "none", normalizedUrl |-> <<>>]

\* Faulty variant of ParseLocals: the normalized URL is the expanded input
\* itself, path and all.
ParseLocalsKeepsUrl(url, hostname, owner, cleanRepo) ==
    [status |-> "ok", url |-> url, hostname |-> hostname,
     owner |-> owner, repo |-> cleanRepo,
     branch |-> BRANCH_PATTERN(url), commit |-> COMMIT_PATTERN(url),
     provider |-> DetectProvider(hostname),
     normalizedUrl |-> url]

\* Lines 95-117, given owner and the cleaned repository name.
ParseLocals(url, hostname, owner, cleanRepo) ==
    [status |-> "ok", url |-> url, hostname |-> hostname,
     owner |-> owner, repo |-> cleanRepo,
     branch |-> BRANCH_PATTERN(url), commit |-> COMMIT_PATTERN(url),
     provider |-> DetectProvider(hostname),
     normalizedUrl |-> NormalizedUrl(hostname, owner, cleanRepo)]

\* Lines 109-114: const [owner, repo] = pathSegments, the suffix removed,
\* and the check that neither is missing or empty.
ParseSegments(url, hostname, pathSegments) ==
    IF Len(pathSegments) < 2 \/ StripGit(pathSegments[2]) = <<>>
    THEN ParseFailed("MissingOwnerOrRepo", url)
    ELSE ParseLocals(url, hostname, pathSegments[1], StripGit(pathSegments[2]))

\* Lines 92-93: new URL(url) and pathname.split('/').filter(Boolean).
ParseUrlObj(url, urlObj) ==
    ParseSegments(url, urlObj.hostname, FilterNonEmpty(Split(urlObj.pathname)))

\* parse up to the visibility lookup (lines 85-117): the error it throws or
\* its locals.
ParseSync(rawUrl) ==
    IF ~gitUrlSchema(rawUrl) THEN ParseFailed("InvalidFormat", rawUrl)
    ELSE ParseUrlObj(ExpandShorthand(rawUrl), ParseURL(ExpandShorthand(rawUrl)))

----------------------------------------------------------------------------
(* The strings the operations are called with.                             *)

\* Path segments of the generated inputs: a plain name, a name with the
\* .git suffix, the suffix alone, a dot segment, the word of the branch
\* pattern, and a name that is also a hexadecimal number.
Segs ==
    { <<"u", "s", "e", "r">>,
      <<"r", "e", "p", "o", ".", "g", "i", "t">>,
      <<".", "g", "i", "t">>,
      <<".", ".">>,
      <<"t", "r", "e", "e">>,
      <<"a", "b", "c">> }

\* What precedes the path: nothing (shorthand), a github host, a gitlab
\* host, and a host no pattern matches.
Prefixes ==
    { <<>>,
      <<"h", "t", "t", "p", "s", ":", "/", "/", "g", "i", "t", "h", "u", "b", ".", "c", "o", "m", "/">>,
      <<"h", "t", "t", "p", "s", ":", "/", "/", "g", "i", "t", "l", "a", "b", ".", "c", "o", "m", "/">>,
      <<"h", "t", "t", "p", "s", ":", "/", "/", "t", "r", "e", "e", "/">> }

\* The inputs of the tests, and inputs of shapes the generated ones lack:
\* a repeated suffix, a single dot, the commit pattern, a host matching two
\* patterns, no scheme, a scheme that is not special, a query, empty segments.
OtherInputs ==
    { <<"h", "t", "t", "p", "s", ":", "/", "/", "g", "i", "t", "h", "u", "b", ".", "c", "o", "m", "/", "u", "s", "e", "r", "/", "r", "e", "p", "o", ".", "g", "i", "t">>,  \* https://github.com/user/repo.git
      <<"u", "s", "e", "r", "/", "r", "e", "p", "o">>,  \* user/repo
      <<"h", "t", "t", "p", "s", ":", "/", "/", "g", "i", "t", "h", "u", "b", ".", "c", "o", "m", "/", "u", "s", "e", "r", "/", "r", "e", "p", "o", "/", "t", "r", "e", "e", "/", "m", "a", "i", "n">>,  \* https://github.com/user/repo/tree/main
      <<"h", "t", "t", "p", "s", ":", "/", "/", "g", "i", "t", "h", "u", "b", ".", "c", "o", "m", "/", "u", "s", "e", "r", "/", "r", "e", "p", "o", "/", "c", "o", "m", "m", "i", "t", "/", "a", "b", "c", "1", "2", "3">>,  \* https://github.com/user/repo/commit/abc123
      <<"h", "t", "t", "p", "s", ":", "/", "/", "g", "i", "t", "l", "a", "b", ".", "c", "o", "m", "/", "u", "s", "e", "r", "/", "r", "e", "p", "o">>,  \* https://gitlab.com/user/repo
      <<"h", "t", "t", "p", "s", ":", "/", "/", "b", "i", "t", "b", "u", "c", "k", "e", "t", ".", "o", "r", "g", "/", "u", "s", "e", "r", "/", "r", "e", "p", "o">>,  \* https://bitbucket.org/user/repo
      <<"i", "n", "v", "a", "l", "i", "d", "-", "u", "r", "l">>,  \* invalid-url
      <<"u", "s", "e", "r", "/", ".">>,  \* user/.
      <<"h", "t", "t", "p", "s", ":", "/", "/", "c", "o", "m", "m", "i", "t", "/", "a", "b", "c", "/", "u", "s", "e", "r">>,  \* https://commit/abc/user
      <<"h", "t", "t", "p", "s", ":", "/", "/", "e", "x", "a", "m", "p", "l", "e", ".", "c", "o", "m", "/", "u", "s", "e", "r">>,  \* https://example.com/user
      <<"h", "t", "t", "p", "s", ":", "/", "/", "e", "x", "a", "m", "p", "l", "e", ".", "c", "o", "m", "/", "u", "s", "e", "r", "/", "r", "e", "p", "o">>,  \* https://example.com/user/repo
      <<"h", "t", "t", "p", "s", ":", "/", "/", "g", "i", "t", "h", "u", "b", ".", "c", "o", "m", "/", "u", "s", "e", "r", "/", "r", "e", "p", "o", ".", "g", "i", "t", ".", "g", "i", "t">>,  \* https://github.com/user/repo.git.git
      <<"h", "t", "t", "p", "s", ":", "/", "/", "g", "i", "t", "h", "u", "b", ".", "c", "o", "m", "/", "c", "o", "m", "m", "i", "t", "/", "a", "b", "c", "1", "2", "3">>,  \* https://github.com/commit/abc123
      <<"h", "t", "t", "p", "s", ":", "/", "/", "g", "i", "t", "l", "a", "b", ".", "c", "o", "m", ".", "g", "i", "t", "h", "u", "b", ".", "c", "o", "m", "/", "u", "s", "e", "r", "/", "r", "e", "p", "o">>,  \* https://gitlab.com.github.com/user/repo
      <<"h", "t", "t", "p", "s", ":", "/", "/", "b", "i", "t", "b", "u", "c", "k", "e", "t", ".", "o", "r", "g", ".", "g", "i", "t", "l", "a", "b", ".", "c", "o", "m", "/", "u", "s", "e", "r", "/", "r", "e", "p", "o">>,  \* https://bitbucket.org.gitlab.com/user/repo
      <<":", "/", "/", "u", "s", "e", "r", "/", "r", "e", "p", "o">>,  \* ://user/repo
      <<"g", "i", "t", ":", "/", "/", "g", "i", "t", "h", "u", "b", ".", "c", "o", "m", "/", "u", "s", "e", "r", "/", "r", "e", "p", "o">>,  \* git://github.com/user/repo
      <<"h", "t", "t", "p", "s", ":", "/", "/", "g", "i", "t", "h", "u", "b", ".", "c", "o", "m", "/", "u", "s", "e", "r", "/", "r", "e", "p", "o", "?", "t", "a", "b", "=", "/", "t", "r", "e", "e", "/", "d", "e", "v", "#", "r", "e", "a", "d", "m", "e">>,  \* https://github.com/user/repo?tab=/tree/dev#readme
      <<"h", "t", "t", "p", "s", ":", "/", "/", "g", "i", "t", "h", "u", "b", ".", "c", "o", "m", "/", "/", "u", "s", "e", "r", "/", "/", "r", "e", "p", "o", "/">> }

\* Every prefix followed by at most MaxSegs segments joined by "/".
GeneratedInputs ==
    { p \o Join(path) :
        p \in Prefixes, path \in UNION {[1..k -> Segs] : k \in 0..MaxSegs} }

Inputs == GeneratedInputs \cup OtherInputs

----------------------------------------------------------------------------
(* The visibility lookup and the values of the operations.                 *)

NoLocal == [status |-> "none"]
NoResponse == [settled |-> "none", ok |-> FALSE, body |-> "none", private |-> "undefined"]
NoRet == [kind |-> "none"]

\* How response.text() (a response that is not ok) or response.json() (one
\* that is) settles: "rejects" (the body cannot be read, or is not JSON),
\* "text", "null" (the JSON value null) or "object".
BodyKinds(ok) == IF ok THEN {"rejects", "null", "object"} ELSE {"rejects", "text"}

\* data.private of a body that is an object: a boolean, absent, or of
\* another type.
PrivateValues == {"true", "false", "undefined", "string"}

\* Faulty variant of LookupOutcome: the try block without its catch, so that
\* a rejected fetch or an unreadable body leaves parse as an exception.
LookupOutcomeNoCatch(resp) ==
    [threw |-> resp.settled = "rejected" \/ resp.body \in {"rejects", "null"},
     isPrivate |-> IF resp.settled = "resolved" /\ resp.ok /\ resp.body = "object"
                   THEN resp.private
                   ELSE "false"]

\* Lines 120-143: the try block around the lookup.  threw says whether an
\* exception leaves the block; isPrivate is the variable after it.
LookupOutcome(resp) ==
    [threw |-> FALSE,
     isPrivate |-> IF resp.settled = "resolved" /\ resp.ok /\ resp.body = "object"
                   THEN resp.private
                   ELSE "false"]

\* Faulty variant of ShouldFetch: the lookup is made for every provider.
ShouldFetchAlways(l) == TRUE

\* Line 121: whether the lookup is made.
ShouldFetch(l) == l.provider = "github"

\* Lines 145-156: the value parse returns.
ParsedGitUrl(l, isPrivate) ==
    [metadata |-> [owner |-> l.owner, repo |-> l.repo, branch |-> l.branch,
                   commit |-> l.commit, provider |-> l.provider,
                   isPrivate |-> isPrivate],
     normalizedUrl |-> l.normalizedUrl,
     originalUrl |-> l.url]

\* The message of the error parse throws.
ErrorMessage(status) ==
    IF status = "InvalidFormat" THEN "Invalid Git repository URL format"
    ELSE "Invalid repository URL: missing owner or repository name"

Thrown(message) == [kind |-> "parse", threw |-> TRUE, message |-> message]
Returned(value) == [kind |-> "parse", threw |-> FALSE, value |-> value]

\* Faulty variant of ActionResponse: a thrown error is answered as a server
\* error and not as an invalid repository URL.
ActionResponseServerError(outcome) ==
    IF outcome.threw
    THEN [kind |-> "action", status |-> 500,
          body |-> [error |-> [code |-> "INTERNAL_ERROR", message |-> outcome.message]]]
    ELSE [kind |-> "action", status |-> 200, body |-> outcome.value]

\* Lines 4-30: the response of the action to what request.json and parse did.
ActionResponse(outcome) ==
    IF outcome.threw
    THEN [kind |-> "action", status |-> 400,
          body |-> [error |-> [code |-> "INVALID_REPOSITORY_URL", message |-> outcome.message]]]
    ELSE [kind |-> "action", status |-> 200, body |-> outcome.value]

\* What the operation in progress hands to its caller when parse settles.
Settle(o, outcome) == IF o = "action" THEN ActionResponse(outcome) ELSE outcome

\* Faulty variant of isValidProvider: a URL whose host no pattern matches
\* counts as github, as in parse.
isValidProviderWithFallback(url) == ParseURL(url).valid

\* isValidProvider (lines 163-172)
isValidProvider(url) ==
    LET urlObj == ParseURL(url)
    IN  IF ~urlObj.valid THEN FALSE
        ELSE \E i \in 1..Len(PROVIDER_PATTERNS) :
                Includes(urlObj.hostname, PROVIDER_PATTERNS[i].pattern)

----------------------------------------------------------------------------
(* The operations.                                                         *)

Init ==
    /\ input \in Inputs
    /\ op = "none"
    /\ pc = "idle"
    /\ local = NoLocal
    /\ fetchCount = 0
    /\ response = NoResponse
    /\ ret = NoRet

\* validate(url): gitUrlSchema.safeParse(url)
Validate ==
    /\ pc = "idle"
    /\ op' = "validate"
    /\ pc' = "done"
    /\ ret' = [kind |-> "validate", success |-> gitUrlSchema(input)]
    /\ UNCHANGED <<input, local, fetchCount, response>>

\* isValidProvider(url)
IsValidProvider ==
    /\ pc = "idle"
    /\ op' = "isValidProvider"
    /\ pc' = "done"
    /\ ret' = [kind |-> "isValidProvider", value |-> isValidProvider(input)]
    /\ UNCHANGED <<input, local, fetchCount, response>>

\* parse(url) up to its first await, called directly (o = "parse") or by the
\* action with the url of a readable request body (o = "action").
ParseStart(o) ==
    /\ pc = "idle"
    /\ op' = o
    /\ local' = ParseSync(input)
    /\ IF local'.status # "ok"
       THEN /\ pc' = "done"
            /\ ret' = Settle(o, Thrown(ErrorMessage(local'.status)))
            /\ fetchCount' = fetchCount
       ELSE IF ShouldFetch(local')
       THEN /\ pc' = "awaitFetch"
            /\ ret' = ret
            /\ fetchCount' = fetchCount + 1
       ELSE /\ pc' = "done"
            /\ ret' = Settle(o, Returned(ParsedGitUrl(local', "false")))
            /\ fetchCount' = fetchCount
    /\ UNCHANGED <<input, response>>

\* The action on a request whose body request.json() cannot read, or whose
\* body has no url (gitUrlSchema.parse(undefined) throws).
ActionBadRequest ==
    /\ pc = "idle"
    /\ op' = "action"
    /\ pc' = "done"
    /\ \E m \in {"Unexpected token", "Required"} :
          ret' = ActionResponse(Thrown(m))
    /\ UNCHANGED <<input, local, fetchCount, response>>

\* What follows the lookup, once it has settled as resp.
AfterLookup(resp) ==
    LET out == LookupOutcome(resp)
    IN  /\ response' = resp
        /\ pc' = "done"
        /\ ret' = Settle(op, IF out.threw THEN Thrown("lookup")
                             ELSE Returned(ParsedGitUrl(local, out.isPrivate)))
        /\ UNCHANGED <<input, op, local, fetchCount>>

\* fetch rejects (network error).
FetchRejects ==
    /\ pc = "awaitFetch"
    /\ AfterLookup([response EXCEPT !.settled = "rejected"])

\* fetch resolves with a response; parse then awaits its body.
FetchResolves ==
    /\ pc = "awaitFetch"
    /\ \E ok \in BOOLEAN :
          response' = [response EXCEPT !.settled = "resolved", !.ok = ok]
    /\ pc' = "awaitBody"
    /\ UNCHANGED <<input, op, local, fetchCount, ret>>

\* response.text() or response.json() settles.
BodySettles ==
    /\ pc = "awaitBody"
    /\ \E b \in BodyKinds(response.ok) :
          \E v \in (IF b = "object" THEN PrivateValues ELSE {"undefined"}) :
              AfterLookup([response EXCEPT !.body = b, !.private = v])

Next ==
    \/ Validate
    \/ IsValidProvider
    \/ ParseStart("parse")
    \/ ParseStart("action")
    \/ ActionBadRequest
    \/ FetchRejects
    \/ FetchResolves
    \/ BodySettles

Spec == Init /\ [][Next]_vars

----------------------------------------------------------------------------
(* Properties.                                                             *)

MissingMessage == "Invalid repository URL: missing owner or repository name"

\* A call of parse has settled / has returned a value.
ParseDone == pc = "done" /\ op = "parse"
ParseOk == ParseDone /\ ~ret.threw

\* The lookup could not be completed with a success status: fetch rejected,
\* or the response was not ok.
LookupFailed ==
    \/ response.settled = "rejected"
    \/ response.settled = "resolved" /\ ~response.ok

\* s with its upper-case letters replaced by lower-case ones.
LowerCase(s) == [i \in 1..Len(s) |-> ToLower(s[i])]

\* The shorthand's second segment: what follows the first slash.
SecondSegment(s) == Drop(s, IndexOf(s, <<"/">>) + 1)

\* C1: when the input is valid, has an owner and a repository name and its
\* provider is github, parse returns a value whatever the lookup did, and
\* with isPrivate false when the lookup threw or answered a non-success
\* status.
C1_LookupFailureIsSwallowed ==
    (ParseDone /\ local.status = "ok" /\ local.provider = "github")
        => /\ ~ret.threw
           /\ LookupFailed => ret.value.metadata.isPrivate = "false"

C1_Witness ==
    /\ ParseOk
    /\ local.provider = "github"
    /\ response.settled = "rejected"
    /\ ret.value.metadata.isPrivate = "false"

\* C2: in every value parse returns, isPrivate is a boolean, and it is true
\* exactly when the provider is github and the lookup answered a success
\* status with a body whose private field is true.
C2_IsPrivateIsDefinite ==
    ParseOk =>
        /\ ret.value.metadata.isPrivate \in {"true", "false"}
        /\ ret.value.metadata.isPrivate = "true"
              <=> /\ ret.value.metadata.provider = "github"
                  /\ response.settled = "resolved"
                  /\ response.ok
                  /\ response.body = "object"
                  /\ response.private = "true"

\* C3: validate reports failure for every input on which parse fails.
C3_ValidateFailsWhereParseFails ==
    (pc = "done" /\ op = "validate" /\ ParseSync(input).status # "ok")
        => ~ret.success

\* C4 as claimed: for an input without "://", parse succeeds exactly when the
\* input matches the shorthand pattern, and then the provider is github.
C4_ShorthandIffPattern ==
    (ParseDone /\ ~Includes(input, SchemeSep))
        => /\ ~ret.threw <=> ShorthandTest(input)
           /\ ~ret.threw => ret.value.metadata.provider = "github"

\* C4 as amended: for an input without "://", parse succeeds exactly when the
\* input matches the shorthand pattern and its second segment is none of
\* ".", ".." and ".git"; in every such success the provider is github.
C4_ShorthandIffPatternAndRepo ==
    (ParseDone /\ ~Includes(input, SchemeSep))
        => /\ ~ret.threw
                <=> /\ ShorthandTest(input)
                    /\ SecondSegment(input) \notin {<<".">>, <<".", ".">>, DotGit}
           /\ ~ret.threw => ret.value.metadata.provider = "github"

C4_Witness ==
    /\ ParseOk
    /\ ~Includes(input, SchemeSep)
    /\ ShorthandTest(input)
    /\ ret.value.metadata.provider = "github"

\* C5 as claimed: the normalized URL is https://<host>/<owner>/<repo> and
\* holds no /tree/<ref> and no /commit/<hex>.
C5_NormalizedUrlHasNoRef ==
    ParseOk =>
        /\ ret.value.normalizedUrl
              = HttpsPrefix \o local.hostname \o <<"/">> \o ret.value.metadata.owner
                    \o <<"/">> \o ret.value.metadata.repo
        /\ BRANCH_PATTERN(ret.value.normalizedUrl) = Undefined
        /\ COMMIT_PATTERN(ret.value.normalizedUrl) = Undefined

\* C5 as amended: the normalized URL is https://<host>/<owner>/<repo>, and
\* it holds a /tree/<ref> only when the host or the owner is the word tree,
\* a /commit/<hex> only when the host or the owner is the word commit, in
\* any letter case.
C5_NormalizedUrlRefOnlyFromOwnerOrHost ==
    ParseOk =>
        /\ ret.value.normalizedUrl
              = HttpsPrefix \o local.hostname \o <<"/">> \o ret.value.metadata.owner
                    \o <<"/">> \o ret.value.metadata.repo
        /\ BRANCH_PATTERN(ret.value.normalizedUrl) # Undefined
              => <<"t", "r", "e", "e">> \in {local.hostname, ret.value.metadata.owner}
        /\ COMMIT_PATTERN(ret.value.normalizedUrl) # Undefined
              => <<"c", "o", "m", "m", "i", "t">>
                    \in {LowerCase(local.hostname), LowerCase(ret.value.metadata.owner)}

C5_Witness ==
    /\ ParseOk
    /\ ret.value.metadata.branch # Undefined
    /\ ret.value.metadata.owner # <<"t", "r", "e", "e">>
    /\ local.hostname # <<"t", "r", "e", "e">>
    /\ BRANCH_PATTERN(ret.value.normalizedUrl) = Undefined

\* C6: parsing the normalized URL of a successful parse succeeds and gives
\* the same normalized URL, owner and repository name.
C6_NormalizationIdempotent ==
    ParseOk =>
        /\ ParseSync(ret.value.normalizedUrl).status = "ok"
        /\ ParseSync(ret.value.normalizedUrl).normalizedUrl = ret.value.normalizedUrl
        /\ ParseSync(ret.value.normalizedUrl).owner = ret.value.metadata.owner
        /\ ParseSync(ret.value.normalizedUrl).repo = ret.value.metadata.repo

\* C7: the provider of a successful parse is the first of github, gitlab,
\* bitbucket whose pattern occurs in the host, github when none does; and a
\* valid input fails only for a missing owner or repository name, never for
\* its host.
C7_ProviderIsFirstMatch ==
    /\ ParseOk =>
          ret.value.metadata.provider
            = IF Includes(local.hostname, PROVIDER_PATTERNS[1].pattern) THEN "github"
              ELSE IF Includes(local.hostname, PROVIDER_PATTERNS[2].pattern) THEN "gitlab"
              ELSE IF Includes(local.hostname, PROVIDER_PATTERNS[3].pattern) THEN "bitbucket"
              ELSE "github"
    /\ (ParseDone /\ ret.threw /\ gitUrlSchema(input)) => ret.message = MissingMessage

C7_Witness ==
    /\ ParseOk
    /\ Cardinality(MatchingProviders(local.hostname)) >= 2
    /\ ret.value.metadata.provider = "github"

\* C8: isValidProvider returns true exactly when the input is an absolute
\* URL whose host one of the three patterns matches, and false for every
\* shorthand.
C8_IsValidProviderIffKnownHost ==
    (pc = "done" /\ op = "isValidProvider")
        => /\ ret.value
                <=> /\ ParseURL(input).valid
                    /\ MatchingProviders(ParseURL(input).hostname) # {}
           /\ ShorthandTest(input) => ~ret.value

\* An input that isValidProvider refuses and that parse takes as github.
C8_Witness ==
    /\ pc = "done"
    /\ op = "isValidProvider"
    /\ ~ret.value
    /\ ParseSync(input).status = "ok"
    /\ ParseSync(input).provider = "github"

\* C9: the action answers 200 with the value of parse exactly when parse
\* succeeds, 400 with the INVALID_REPOSITORY_URL envelope otherwise, and
\* never 400 once the lookup has been issued.
C9_ActionStatus ==
    (pc = "done" /\ op = "action")
        => /\ ret.status \in {200, 400}
           /\ ret.status = 200 <=> local.status = "ok"
           /\ ret.status = 200
                => /\ ret.body.normalizedUrl = local.normalizedUrl
                   /\ ret.body.originalUrl = local.url
                   /\ ret.body.metadata.owner = local.owner
                   /\ ret.body.metadata.repo = local.repo
           /\ ret.status = 400
                => /\ ret.body.error.code = "INVALID_REPOSITORY_URL"
                   /\ fetchCount = 0

C9_Witness ==
    /\ pc = "done"
    /\ op = "action"
    /\ LookupFailed
    /\ ret.status = 200

\* C10: a call of parse issues the lookup at most once: once when the input
\* is valid, has an owner and a repository name and the provider is github,
\* never otherwise.
C10_LookupAtMostOnce ==
    /\ fetchCount <= 1
    /\ pc \in {"awaitFetch", "awaitBody"} => fetchCount = 1
    /\ (pc = "done" /\ op \in {"parse", "action"})
          => fetchCount = IF local.status = "ok" /\ local.provider = "github" THEN 1 ELSE 0

C10_Witness ==
    /\ ParseDone
    /\ fetchCount = 1
    /\ LookupFailed
    /\ response.body = "rejects"

====
